---- MODULE Spec2Model ----
(***************************************************************************)
(* Maize maturity prediction service (backend/backend.py) and its          *)
(* Streamlit client (frontend/frontend.py).                                *)
(*                                                                         *)
(* The backend is modelled as: module import (model loading) followed by   *)
(* any sequence of requests to /, /health and /predict, each answered      *)
(* before the next is taken (the handlers write no shared state, so        *)
(* overlapping requests behave as some sequence of them).  The client is   *)
(* modelled as: session start (history load) followed by any sequence of   *)
(* presses on the Predict button.                                          *)
(***************************************************************************)
EXTENDS Integers, Sequences, FiniteSets, TLC

VARIABLES
    phase,      \* backend: "startup" while the module body runs, then "serving"
    model,      \* backend: the module-level name `model`
    req,        \* backend: the request being answered (endpoint and body)
    raw,        \* backend: what model.predict did for that request
    resp,       \* backend: the response to that request
    started,    \* client: "history" in st.session_state
    history,    \* client: st.session_state.history
    file,       \* client: prediction_history.csv (<<"absent">> when it does not exist)
    posts,      \* client: number of requests.post calls issued so far
    presses,    \* client: number of presses on the Predict button so far
    successes,  \* client: entries of the presses whose POST answered with a prediction
    ui          \* client: what the last press displayed

backendVars == <<phase, model, req, raw, resp>>
clientVars  == <<started, history, file, posts, presses, successes, ui>>
vars == <<phase, model, req, raw, resp,
          started, history, file, posts, presses, successes, ui>>

(***************************************************************************)
(* Bounds of the model and constants of the program                        *)
(***************************************************************************)
MaxClass == 2       \* model.predict returns a class code in 0..MaxClass
MaxPresses == 3     \* presses on the Predict button that are explored

RGBMin == 0
RGBMax == 255
TempMin == 15
TempMax == 45
HumMin == 0
HumMax == 100

Required == {"R", "G", "B", "temperature", "humidity"}

(***************************************************************************)
(* JSON values.  A value is a record [t, n]: t is the JSON type (with      *)
(* strings split by what float() makes of their text), n the number a      *)
(* number or a numeric string denotes.  "absent" marks a key that the      *)
(* object does not have.                                                   *)
(***************************************************************************)
Num(n)    == [t |-> "num", n |-> n]        \* JSON number n
StrNum(n) == [t |-> "strnum", n |-> n]     \* JSON string holding the decimal text of n
StrBad    == [t |-> "strbad", n |-> 0]     \* JSON string such as "abc"
StrNaN    == [t |-> "strnan", n |-> 0]     \* JSON string "nan"
Null      == [t |-> "null", n |-> 0]       \* JSON null
List      == [t |-> "list", n |-> 0]       \* JSON array or object as a field value
JTrue     == [t |-> "true", n |-> 1]       \* JSON true
Absent    == [t |-> "absent", n |-> 0]     \* the key is not in the object

\* Values tried for a field whose valid range is lo..hi: both bounds, both
\* neighbours outside, a string that is no number, null, and no key at all.
FieldValues(lo, hi) ==
    {Num(lo - 1), Num(lo), Num(hi), Num(hi + 1), StrBad, Null, Absent}

\* The same with the remaining JSON types; tried for the first and the last
\* field that validate_input looks at.
WideValues(lo, hi) ==
    FieldValues(lo, hi) \cup {StrNum(lo), StrNaN, List, JTrue}

\* float(x) of Python: a finite number, nan, or an exception.
float(v) ==
    CASE v.t = "num"    -> [exc |-> "none", nan |-> FALSE, n |-> v.n]
      [] v.t = "strnum" -> [exc |-> "none", nan |-> FALSE, n |-> v.n]
      [] v.t = "true"   -> [exc |-> "none", nan |-> FALSE, n |-> 1]
      [] v.t = "strnan" -> [exc |-> "none", nan |-> TRUE, n |-> 0]
      [] v.t = "strbad" -> [exc |-> "ValueError", nan |-> FALSE, n |-> 0]
      [] OTHER          -> [exc |-> "TypeError", nan |-> FALSE, n |-> 0]

\* lo <= x <= hi on a float: every comparison with nan is False.
Between(lo, x, hi) == ~x.nan /\ lo <= x.n /\ x.n <= hi

(***************************************************************************)
(* Request bodies.  data is what request.get_json() is asked to decode:    *)
(*   kind   "nobody" (no JSON body), "malformed" (JSON that does not       *)
(*          parse), or the JSON type of the decoded document;              *)
(*   f      for an object, the value of each required key;                 *)
(*   extra  for an object, whether it has keys besides the required ones;  *)
(*   has    for an array the required names that are elements of it, for a *)
(*          string the required names that are substrings of it;           *)
(*   empty  for an array, string, number or boolean: [], "", 0, false.     *)
(***************************************************************************)
NoFields == [k \in Required |-> Absent]

ObjectBodies ==
    {[kind |-> "object", f |-> r, extra |-> FALSE, has |-> {}, empty |-> FALSE] :
        r \in [R : WideValues(RGBMin, RGBMax),
               G : FieldValues(RGBMin, RGBMax),
               B : FieldValues(RGBMin, RGBMax),
               temperature : FieldValues(TempMin, TempMax),
               humidity : WideValues(HumMin, HumMax)]}
    \cup {[kind |-> "object", f |-> NoFields, extra |-> TRUE, has |-> {}, empty |-> FALSE]}

OtherBodies ==
    {[kind |-> k, f |-> NoFields, extra |-> FALSE, has |-> {}, empty |-> FALSE] :
        k \in {"nobody", "malformed", "null"}}
    \cup {[kind |-> k, f |-> NoFields, extra |-> FALSE, has |-> h, empty |-> FALSE] :
        k \in {"list", "string"}, h \in {{"R"}, Required}}
    \cup {[kind |-> k, f |-> NoFields, extra |-> FALSE, has |-> {}, empty |-> e] :
        k \in {"list", "string", "number", "bool"}, e \in BOOLEAN}

Bodies == ObjectBodies \cup OtherBodies

\* The body the handlers of GET requests never read.
NoBody == [kind |-> "nobody", f |-> NoFields, extra |-> FALSE, has |-> {}, empty |-> FALSE]

\* bool(data) of Python for a decoded JSON document.
Truthy(data) ==
    CASE data.kind = "null"   -> FALSE
      [] data.kind = "object" -> data.extra \/ \E k \in Required : data.f[k] # Absent
      [] OTHER -> ~data.empty

\* `field in data`: a key of a dict, an element of a list, a substring of a
\* str; a TypeError for a number or a boolean.
Contains(data, field) ==
    CASE data.kind = "object" -> [exc |-> "none", b |-> data.f[field] # Absent]
      [] data.kind \in {"list", "string"} -> [exc |-> "none", b |-> field \in data.has]
      [] OTHER -> [exc |-> "TypeError", b |-> FALSE]

\* float(data[field]): data[field] raises TypeError on a list or a str
\* (indices must be integers) and KeyError on a dict without the key.
FloatOf(data, field) ==
    IF data.kind # "object"
        THEN [exc |-> "TypeError", nan |-> FALSE, n |-> 0]
    ELSE IF data.f[field] = Absent
        THEN [exc |-> "KeyError", nan |-> FALSE, n |-> 0]
    ELSE float(data.f[field])

(***************************************************************************)
(* validate_input                                                          *)
(***************************************************************************)
\* What a call returns or raises: exc is "none" when it returned
\* (valid, msg), else the exception that left it.
Returned(valid, msg) == [exc |-> "none", valid |-> valid, msg |-> msg]
Raised(exc) == [exc |-> exc, valid |-> FALSE, msg |-> ""]

\* The five `if not (lo <= float(data[k]) <= hi)` statements, in source order.
Checks ==
    << [field |-> "R", lo |-> RGBMin, hi |-> RGBMax, msg |-> "R value must be 0-255"],
       [field |-> "G", lo |-> RGBMin, hi |-> RGBMax, msg |-> "G value must be 0-255"],
       [field |-> "B", lo |-> RGBMin, hi |-> RGBMax, msg |-> "B value must be 0-255"],
       [field |-> "temperature", lo |-> TempMin, hi |-> TempMax,
        msg |-> "Temperature must be 15-45C"],     \* the source has a degree sign
       [field |-> "humidity", lo |-> HumMin, hi |-> HumMax,
        msg |-> "Humidity must be 0-100%"] >>

\* Variant of InRange with the bounds excluded: lo < x < hi.
InRangeExclusive(c, x) == ~x.nan /\ c.lo < x.n /\ x.n < c.hi

\* One `if` statement: the value in range or not, or float() raising.
InRange(c, x) == Between(c.lo, x, c.hi)

\* Variant of CheckFrom in three stages: all five values are coerced before
\* any range is checked.
RECURSIVE RangesFrom(_, _)
RangesFrom(data, i) ==
    IF i > Len(Checks) THEN Returned(TRUE, "")
    ELSE IF ~Between(Checks[i].lo, FloatOf(data, Checks[i].field), Checks[i].hi)
        THEN Returned(FALSE, Checks[i].msg)
    ELSE RangesFrom(data, i + 1)
CheckStaged(data, i) ==
    IF \E j \in i..Len(Checks) : FloatOf(data, Checks[j].field).exc = "ValueError"
        THEN Returned(FALSE, "Invalid numeric values")
    ELSE IF \E j \in i..Len(Checks) : FloatOf(data, Checks[j].field).exc # "none"
        THEN Raised("TypeError")
    ELSE RangesFrom(data, i)

\* The try block from its i-th statement on: each statement coerces its own
\* field and then compares it; ValueError is the only exception caught.
RECURSIVE CheckFrom(_, _)
CheckFrom(data, i) ==
    IF i > Len(Checks) THEN Returned(TRUE, "")
    ELSE LET c == Checks[i]
             x == FloatOf(data, c.field)
         IN  IF x.exc = "ValueError" THEN Returned(FALSE, "Invalid numeric values")
             ELSE IF x.exc # "none" THEN Raised(x.exc)
             ELSE IF ~InRange(c, x) THEN Returned(FALSE, c.msg)
             ELSE CheckFrom(data, i + 1)

\* Variant of AllRequired with any() in place of all().
AnyRequired(data) ==
    IF \E k \in Required : Contains(data, k).exc # "none"
        THEN [exc |-> "TypeError", b |-> FALSE]
        ELSE [exc |-> "none", b |-> \E k \in Required : Contains(data, k).b]

\* all(field in data for field in required)
AllRequired(data) ==
    IF \E k \in Required : Contains(data, k).exc # "none"
        THEN [exc |-> "TypeError", b |-> FALSE]
        ELSE [exc |-> "none", b |-> \A k \in Required : Contains(data, k).b]

validate_input(data) ==
    LET a == AllRequired(data)
    IN  IF a.exc # "none" THEN Raised(a.exc)
        ELSE IF ~a.b THEN Returned(FALSE, "Missing required fields")
        ELSE CheckFrom(data, 1)

(***************************************************************************)
(* The model object                                                        *)
(***************************************************************************)
\* The name `model` holds None or the object joblib.load returned.  Of that
\* object the handlers use `model is None`, bool(model) and model.predict;
\* truth is what bool(model) does: True, False, or an exception raised by
\* the object's __bool__/__len__.
None == [none |-> TRUE, truth |-> "falsy"]
Loaded(truth) == [none |-> FALSE, truth |-> truth]
Objects == {Loaded(t) : t \in {"truthy", "falsy", "raises"}}

\* MODEL_FILE at startup: missing, empty, not loadable, or a pickle of obj.
Artifacts ==
    {[state |-> st, obj |-> None] : st \in {"missing", "empty", "corrupt"}}
    \cup {[state |-> "pickle", obj |-> o] : o \in Objects \cup {None}}

\* The module-level try block: every exception leaves model = None.
LoadModel(a) == IF a.state = "pickle" THEN a.obj ELSE None

\* What one call of model.predict(features) does: returns an array whose
\* first element is a class code, or one whose first element is a
\* non-numeric class label, or raises.
Code(n) == [t |-> "code", n |-> n]
Label == [t |-> "label", n |-> 0]
Raises == [t |-> "raises", n |-> 0]
NotCalled == [t |-> "notcalled", n |-> 0]
Outcomes == {Code(n) : n \in 0..MaxClass} \cup {Label, Raises}

(***************************************************************************)
(* Responses                                                               *)
(***************************************************************************)
\* code: HTTP status; json: whether the body is a JSON object built by the
\* handler (FALSE: the framework's error page); keys: the keys of that
\* object; the other fields are the values of the keys of the same name.
Json(code, keys, error, status, prediction, loaded) ==
    [code |-> code, json |-> TRUE, keys |-> keys, error |-> error,
     status |-> status, prediction |-> prediction, model_loaded |-> loaded]
\* An exception that leaves a view function, or an abort(): Flask answers
\* with its own error page.
Framework(code) ==
    [code |-> code, json |-> FALSE, keys |-> {}, error |-> "",
     status |-> "", prediction |-> "", model_loaded |-> FALSE]
NoResponse == Framework(0)

\* request.get_json() on a request that carries no JSON body: None in the
\* Flask releases that ignore the mimetype, an abort with 400 or 415 in the
\* later ones.
FlaskBehaviours == {"None", "400", "415"}

\* request.get_json(): the decoded document, None, or an abort.
get_json(data, flask) ==
    CASE data.kind = "malformed" -> [abort |-> 400, data |-> data]
      [] data.kind = "nobody" /\ flask = "400" -> [abort |-> 400, data |-> data]
      [] data.kind = "nobody" /\ flask = "415" -> [abort |-> 415, data |-> data]
      [] data.kind = "nobody" -> [abort |-> 0, data |-> [data EXCEPT !.kind = "null"]]
      [] OTHER -> [abort |-> 0, data |-> data]

\* The list of five float(data[k]) inside predict's try block.
Features(data) == [i \in 1..Len(Checks) |-> FloatOf(data, Checks[i].field)]
FeaturesRaise(data) == \E i \in 1..Len(Checks) : Features(data)[i].exc # "none"

\* Variant of Result with a threshold in place of the equality.
ResultThreshold(out) == IF out.t = "code" /\ out.n >= 1 THEN "Mature" ELSE "Immature"

\* "Mature" if prediction[0] == 1 else "Immature"
Result(out) == IF out.t = "code" /\ out.n = 1 THEN "Mature" ELSE "Immature"

\* Variant of TryPredict without the except clause: the exception leaves
\* the view function.
TryPredictUncaught(data, out) ==
    IF FeaturesRaise(data) \/ out.t = "raises" \/ out.t = "label"
        THEN Framework(500)
        ELSE Json(200, {"prediction", "confidence", "status"}, "", "success", Result(out), FALSE)

\* The try block of predict.
TryPredict(data, out) ==
    IF FeaturesRaise(data) \/ out.t = "raises" \/ out.t = "label"  \* float(prediction[0])
        THEN Json(500, {"error", "details", "status"}, "Prediction failed", "error", "", FALSE)
        ELSE Json(200, {"prediction", "confidence", "status"}, "", "success", Result(out), FALSE)

\* Variant of predict that decodes and validates the body before it looks
\* at the model.
predictParsesFirst(m, data, flask, out) ==
    LET j == get_json(data, flask)
    IN  IF j.abort # 0 THEN Framework(j.abort)
        ELSE IF ~Truthy(j.data)
            THEN Json(400, {"error"}, "No data provided", "", "", FALSE)
        ELSE LET v == validate_input(j.data)
             IN  IF v.exc # "none" THEN Framework(500)
                 ELSE IF ~v.valid THEN Json(400, {"error"}, v.msg, "", "", FALSE)
                 ELSE IF m.none
                     THEN Json(503, {"error", "status"}, "Model not loaded",
                               "unavailable", "", FALSE)
                 ELSE TryPredict(j.data, out)

\* Whether the handler gets as far as calling validate_input.
Validates(m, data, flask) ==
    /\ ~m.none
    /\ get_json(data, flask).abort = 0
    /\ Truthy(get_json(data, flask).data)

\* Whether the handler gets as far as calling model.predict.
CallsModel(m, data, flask) ==
    /\ Validates(m, data, flask)
    /\ validate_input(get_json(data, flask).data) = Returned(TRUE, "")
    /\ ~FeaturesRaise(get_json(data, flask).data)

\* POST /predict
predict(m, data, flask, out) ==
    IF m.none
        THEN Json(503, {"error", "status"}, "Model not loaded", "unavailable", "", FALSE)
    ELSE LET j == get_json(data, flask)
         IN  IF j.abort # 0 THEN Framework(j.abort)
             ELSE IF ~Truthy(j.data)
                 THEN Json(400, {"error"}, "No data provided", "", "", FALSE)
             ELSE LET v == validate_input(j.data)
                  IN  IF v.exc # "none" THEN Framework(500)
                      ELSE IF ~v.valid THEN Json(400, {"error"}, v.msg, "", "", FALSE)
                      ELSE TryPredict(j.data, out)

HealthKeys == {"status", "model_loaded", "timestamp", "python_version", "dependencies"}

\* GET /health
health_check(m) ==
    IF m.truth = "raises" THEN Framework(500)
    ELSE Json(200, HealthKeys, "",
              IF m.truth = "truthy" THEN "healthy" ELSE "unhealthy", "",
              m.truth = "truthy")

\* GET /
home(m) ==
    IF m.truth = "raises" THEN Framework(500)
    ELSE Json(200, {"service", "status", "endpoints", "documentation"}, "",
              IF m.truth = "truthy" THEN "operational" ELSE "degraded", "", FALSE)

(***************************************************************************)
(* The client                                                              *)
(***************************************************************************)
\* What the widgets hold when the Predict button is pressed.  rgb is FALSE
\* when the names r, g, b are unbound: mode "Upload Image for RGB" with no
\* file uploaded (the assignments sit under `if uploaded_file is not None`).
Inputs ==
    {[rgb |-> d, r |-> r, g |-> 100, b |-> 100, temp |-> t, hum |-> 50] :
        d \in BOOLEAN, r \in {RGBMin, RGBMax}, t \in {20, 35}}

\* json=data of requests.post
Payload(in) ==
    [kind |-> "object", extra |-> FALSE, has |-> {}, empty |-> FALSE,
     f |-> [R |-> Num(in.r), G |-> Num(in.g), B |-> Num(in.b),
            temperature |-> Num(in.temp), humidity |-> Num(in.hum)]]

\* The dict appended to st.session_state.history.
Entry(in, prediction) ==
    [R |-> in.r, G |-> in.g, B |-> in.b, Temp |-> in.temp, Humidity |-> in.hum,
     Prediction |-> prediction]

\* prediction_history.csv: a header line and one line per row, or no file.
Columns == <<"R", "G", "B", "Temp", "Humidity", "Prediction">>
NoFile == [exists |-> FALSE, header |-> <<>>, rows |-> <<>>]

\* pd.DataFrame(history).to_csv(HISTORY_FILE, index=False)
to_csv(h) ==
    [exists |-> TRUE,
     header |-> IF Len(h) = 0 THEN <<>> ELSE Columns,
     rows |-> [i \in 1..Len(h) |->
                 <<h[i].R, h[i].G, h[i].B, h[i].Temp, h[i].Humidity, h[i].Prediction>>]]

\* pd.read_csv(HISTORY_FILE).to_dict(orient="records")
read_csv(c) ==
    [i \in 1..Len(c.rows) |->
        [R |-> c.rows[i][1], G |-> c.rows[i][2], B |-> c.rows[i][3],
         Temp |-> c.rows[i][4], Humidity |-> c.rows[i][5], Prediction |-> c.rows[i][6]]]

\* Files a previous run of the client can have left behind.
SeedFiles ==
    {NoFile, to_csv(<<Entry([r |-> 100, g |-> 100, b |-> 100, temp |-> 25, hum |-> 50],
                            "Immature")>>)}

(***************************************************************************)
(* Initial states                                                          *)
(***************************************************************************)
\* No request is being answered.
Idle == [endpoint |-> "", data |-> NoBody]

InitBackend ==
    /\ phase = "startup"
    /\ model = None
    /\ req = Idle
    /\ raw = NotCalled
    /\ resp = NoResponse

InitClient ==
    /\ started = FALSE
    /\ history = <<>>
    /\ posts = 0
    /\ presses = 0
    /\ successes = <<>>
    /\ ui = "none"

Init == InitBackend /\ InitClient /\ file = NoFile

(***************************************************************************)
(* Backend actions                                                         *)
(***************************************************************************)
\* Module import: the model-loading try block.
Load ==
    /\ phase = "startup"
    /\ \E a \in Artifacts : model' = LoadModel(a)
    /\ phase' = "serving"
    /\ UNCHANGED <<req, raw, resp>>
    /\ UNCHANGED clientVars

\* Variant of Serve in which a failed prediction drops the model.
ServeDropsModel(data, flask, out) ==
    /\ req' = [endpoint |-> "/predict", data |-> data]
    /\ resp' = predict(model, data, flask, out)
    /\ raw' = out
    /\ model' = IF resp'.code = 500 THEN None ELSE model
    /\ UNCHANGED phase

\* What one POST /predict does to the backend's state.
Serve(data, flask, out) ==
    /\ req' = [endpoint |-> "/predict", data |-> data]
    /\ resp' = predict(model, data, flask, out)
    /\ raw' = out
    /\ UNCHANGED <<phase, model>>

PredictReq ==
    /\ phase = "serving"
    /\ req = Idle
    /\ \E data \in Bodies :
         \* the inputs the handler does not read are not varied
         \E flask \in IF data.kind = "nobody" THEN FlaskBehaviours ELSE {"None"} :
           \E out \in IF CallsModel(model, data, flask) THEN Outcomes ELSE {NotCalled} :
             Serve(data, flask, out)
    /\ UNCHANGED clientVars

HealthReq ==
    /\ phase = "serving"
    /\ req = Idle
    /\ req' = [endpoint |-> "/health", data |-> NoBody]
    /\ resp' = health_check(model)
    /\ raw' = NotCalled
    /\ UNCHANGED <<phase, model>>
    /\ UNCHANGED clientVars

HomeReq ==
    /\ phase = "serving"
    /\ req = Idle
    /\ req' = [endpoint |-> "/", data |-> NoBody]
    /\ resp' = home(model)
    /\ raw' = NotCalled
    /\ UNCHANGED <<phase, model>>
    /\ UNCHANGED clientVars

\* The response is sent and the request's data is discarded.
Respond ==
    /\ req # Idle
    /\ req' = Idle
    /\ raw' = NotCalled
    /\ resp' = NoResponse
    /\ UNCHANGED <<phase, model>>
    /\ UNCHANGED clientVars

Next == Load \/ PredictReq \/ HealthReq \/ HomeReq \/ Respond

Spec == Init /\ [][Next]_vars

(***************************************************************************)
(* Client actions                                                          *)
(***************************************************************************)
\* First run of the script in a session: `if "history" not in
\* st.session_state`.
StartSession ==
    /\ ~started
    /\ started' = TRUE
    /\ history' = IF file.exists THEN read_csv(file) ELSE <<>>
    /\ successes' = history'
    /\ UNCHANGED <<file, posts, presses, ui>>
    /\ UNCHANGED backendVars

\* `data = {...}` with r, g, b unbound: NameError before the try statement;
\* Streamlit shows the exception and the run of the script ends.
PressUnbound ==
    /\ presses' = presses + 1
    /\ ui' = "exception"
    /\ UNCHANGED <<started, history, file, posts, successes>>
    /\ UNCHANGED backendVars

\* requests.post raises (nothing listens on the port): the except branch.
PressNoServer ==
    /\ presses' = presses + 1
    /\ posts' = posts + 1
    /\ ui' = "failed to connect"
    /\ UNCHANGED <<started, history, file, successes>>
    /\ UNCHANGED backendVars

\* What the client does with the response: response.json() raises on a
\* body that is no JSON (the except branch); otherwise the branch on
\* `"prediction" in result`.
Received(in, r) ==
    IF ~r.json
        THEN /\ ui' = "failed to connect"
             /\ UNCHANGED <<history, file>>
    ELSE IF "prediction" \in r.keys
        THEN /\ ui' = "success"
             /\ history' = Append(history, Entry(in, r.prediction))
             /\ file' = to_csv(history')
        ELSE /\ ui' = "error"
             /\ UNCHANGED <<history, file>>

\* The call of a press that returned a successful prediction.
Successful(r) == r.code = 200 /\ r.json /\ r.status = "success"

\* requests.post reaches the service and the response comes back.
PressServed(in, flask, out) ==
    /\ presses' = presses + 1
    /\ posts' = posts + 1
    /\ Serve(Payload(in), flask, out)
    /\ Received(in, resp')
    /\ successes' = IF Successful(resp')
                       THEN Append(successes, Entry(in, resp'.prediction))
                       ELSE successes
    /\ UNCHANGED started

\* One press on the Predict button.
Press ==
    /\ started
    /\ presses < MaxPresses
    /\ \E in \in Inputs :
         IF ~in.rgb THEN PressUnbound
         ELSE \E up \in BOOLEAN :
                IF ~up \/ phase # "serving" THEN PressNoServer
                ELSE \E out \in IF CallsModel(model, Payload(in), "None")
                                   THEN Outcomes ELSE {NotCalled} :
                       PressServed(in, "None", out)

InitSession == InitBackend /\ InitClient /\ file \in SeedFiles

NextClient == Load \/ StartSession \/ Press

SpecClient == InitSession /\ [][NextClient]_vars

(***************************************************************************)
(* Vocabulary of the properties.  These definitions restate the terms of   *)
(* the specification (field order, ranges, reasons) independently of the   *)
(* operators above.                                                        *)
(***************************************************************************)
Order == <<"R", "G", "B", "temperature", "humidity">>
Lo(k) == CASE k = "temperature" -> TempMin [] k = "humidity" -> HumMin [] OTHER -> RGBMin
Hi(k) == CASE k = "temperature" -> TempMax [] k = "humidity" -> HumMax [] OTHER -> RGBMax

\* The reason that names field k and its range.
ReasonOf(k) ==
    CASE k = "R" -> "R value must be 0-255"
      [] k = "G" -> "G value must be 0-255"
      [] k = "B" -> "B value must be 0-255"
      [] k = "temperature" -> "Temperature must be 15-45C"
      [] k = "humidity" -> "Humidity must be 0-100%"
MissingReason == "Missing required fields"
NumericReason == "Invalid numeric values"
NoDataReason == "No data provided"

\* A POST /predict has been answered by a service whose model is loaded.
PredictAnswered == req.endpoint = "/predict" /\ ~model.none
\* The same for a JSON object as body.
ObjectAnswered == PredictAnswered /\ req.data.kind = "object"

Present(d, k) == d.f[k] # Absent
HasAllFive(d) == d.kind = "object" /\ \A k \in Required : Present(d, k)
EmptyObject(d) == d.kind = "object" /\ ~d.extra /\ \A k \in Required : ~Present(d, k)

\* Values float() converts, and values it does not.
Coercible(v) == v.t \in {"num", "strnum", "true", "strnan"}
NotANumber(v) == v.t \in {"strbad", "null", "list"}
\* A converted value that is not inside the range of field k (nan is
\* inside no range).
OutOfRange(k, v) ==
    Coercible(v) /\ (v.t = "strnan" \/ v.n < Lo(k) \/ v.n > Hi(k))
AllCoercible(d) == HasAllFive(d) /\ \A k \in Required : Coercible(d.f[k])
AllInRange(d) == AllCoercible(d) /\ \A k \in Required : ~OutOfRange(k, d.f[k])

\* The first position in Order whose field is out of range (0: none).
FirstOutOfRange(d) ==
    IF \E i \in 1..5 : OutOfRange(Order[i], d.f[Order[i]])
        THEN CHOOSE i \in 1..5 :
                /\ OutOfRange(Order[i], d.f[Order[i]])
                /\ \A j \in 1..(i - 1) : ~OutOfRange(Order[j], d.f[Order[j]])
        ELSE 0

\* The first position in Order whose field is no number or out of range.
Offends(d, i) ==
    NotANumber(d.f[Order[i]]) \/ OutOfRange(Order[i], d.f[Order[i]])
FirstOffender(d) ==
    IF \E i \in 1..5 : Offends(d, i)
        THEN CHOOSE i \in 1..5 : Offends(d, i) /\ \A j \in 1..(i - 1) : ~Offends(d, j)
        ELSE 0

\* The response is a JSON error with status 400 and the given reason.
Rejected(reason) ==
    resp.code = 400 /\ resp.json /\ resp.keys = {"error"} /\ resp.error = reason

(***************************************************************************)
(* C1                                                                      *)
(***************************************************************************)
\* C1 as stated: with the model loaded, every JSON object sent to
\* /predict that lacks at least one of the five required fields, the empty
\* object included, is answered 400 with the missing-required-fields
\* reason.
C1_AsStated ==
    (ObjectAnswered /\ ~HasAllFive(req.data)) => Rejected(MissingReason)

\* C1 amended: with the model loaded, every JSON object that has at least
\* one key and lacks at least one of the five required fields is answered
\* 400 with the missing-required-fields reason; the empty object is
\* answered 400 with the no-data reason.
C1_MissingFields ==
    (ObjectAnswered /\ ~HasAllFive(req.data)) =>
        IF EmptyObject(req.data)
            THEN Rejected(NoDataReason)
            ELSE Rejected(MissingReason)

\* Only humidity is missing, the other four are valid: the missing-fields
\* reason has been returned.
C1_Witness ==
    /\ ObjectAnswered
    /\ ~Present(req.data, "humidity")
    /\ \A k \in Required \ {"humidity"} :
          Present(req.data, k) /\ Coercible(req.data.f[k]) /\ ~OutOfRange(k, req.data.f[k])
    /\ Rejected(MissingReason)

(***************************************************************************)
(* C2                                                                      *)
(***************************************************************************)
\* C2 as stated: with the model loaded, every body that has all five
\* fields and at least one value that is no real number is rejected with
\* the invalid-numeric-values reason, whatever the other values are.
C2_AsStated ==
    (ObjectAnswered /\ HasAllFive(req.data)
        /\ \E k \in Required : NotANumber(req.data.f[k]))
    => Rejected(NumericReason)

\* C2 amended: after the existence check the validator takes the fields in
\* the order R, G, B, temperature, humidity and coerces and range-checks
\* each one before it looks at the next.  For a body with all five fields
\* the reason is invalid-numeric-values exactly when the first field that
\* is no number or out of range is a string that is no number; an
\* out-of-range field before it is reported instead.
C2_FirstOffenderDecides ==
    (ObjectAnswered /\ HasAllFive(req.data)) =>
        LET i == FirstOffender(req.data)
        IN  Rejected(NumericReason) <=> (i # 0 /\ req.data.f[Order[i]] = StrBad)

\* R is out of range and G is a string that is no number: the reason names
\* R.
C2_Witness ==
    /\ ObjectAnswered /\ HasAllFive(req.data)
    /\ OutOfRange("R", req.data.f["R"])
    /\ req.data.f["G"] = StrBad
    /\ Rejected(ReasonOf("R"))

(***************************************************************************)
(* C3                                                                      *)
(***************************************************************************)
\* C3: with the model loaded, for every decoded JSON body (any JSON type
\* for the body and for each field) the validator returns (valid) or
\* (invalid, reason) and never raises, so that every request it does not
\* accept is answered with a JSON 400 response.
C3_NeverRaises ==
    (PredictAnswered /\ req.data.kind \notin {"nobody", "malformed"}) =>
        /\ Validates(model, req.data, "None") => validate_input(req.data).exc = "none"
        /\ resp.json
        /\ resp.code \in {200, 400, 500}
        /\ (~AllInRange(req.data) => resp.code = 400)

(***************************************************************************)
(* C4                                                                      *)
(***************************************************************************)
\* C4: with the model loaded, every body whose five fields are all present
\* and coercible and of which at least one is out of range (R, G, B in
\* [0,255], temperature in [15,45], humidity in [0,100], bounds included)
\* is answered 400 with the reason of the first out-of-range field in the
\* order R, G, B, temperature, humidity; a body whose values are all in
\* range, the bounds included, is not answered 400.
C4_FirstOutOfRange ==
    (ObjectAnswered /\ AllCoercible(req.data)) =>
        LET i == FirstOutOfRange(req.data)
        IN  IF i # 0 THEN Rejected(ReasonOf(Order[i]))
                     ELSE resp.code # 400

\* R is valid, G and temperature are out of range: the reason names G.
C4_Witness ==
    /\ ObjectAnswered /\ AllCoercible(req.data)
    /\ ~OutOfRange("R", req.data.f["R"])
    /\ OutOfRange("G", req.data.f["G"])
    /\ OutOfRange("temperature", req.data.f["temperature"])
    /\ Rejected(ReasonOf("G"))

(***************************************************************************)
(* C5                                                                      *)
(***************************************************************************)
\* The response is 200 with status "success" and the given label.
Succeeded(label) ==
    /\ resp.code = 200 /\ resp.json /\ resp.status = "success"
    /\ "prediction" \in resp.keys /\ resp.prediction = label

\* C5 as stated: with the model loaded, every body with all five fields
\* present, coercible and in range is answered 200 with status "success"
\* and the prediction "Mature" when the model's raw output is 1 and
\* "Immature" for every other raw output.
C5_AsStated ==
    (ObjectAnswered /\ AllInRange(req.data)) =>
        Succeeded(IF raw = Code(1) THEN "Mature" ELSE "Immature")

\* C5 amended: with the model loaded, for every body with all five fields
\* present, coercible and in range: when model.predict returns a numeric
\* class code the answer is 200 with status "success" and the prediction
\* "Mature" if the code is 1 and "Immature" for every other code; when it
\* raises, or returns a label that float() cannot convert, the answer is
\* 500.
C5_LabelOfRawOutput ==
    (ObjectAnswered /\ AllInRange(req.data)) =>
        IF raw.t = "code"
            THEN Succeeded(IF raw.n = 1 THEN "Mature" ELSE "Immature")
            ELSE resp.code = 500

\* A valid body for which the model returned a class code other than 0 and
\* 1, answered "Immature".
C5_Witness ==
    /\ ObjectAnswered /\ AllInRange(req.data)
    /\ raw.t = "code" /\ raw.n > 1
    /\ Succeeded("Immature")

(***************************************************************************)
(* C6                                                                      *)
(***************************************************************************)
\* C6: while the model reference is unset, every POST /predict is answered
\* 503 with status "unavailable", whatever the body (none, malformed,
\* fields missing, out of range, valid), and model.predict is not called.
C6_Unavailable ==
    (req.endpoint = "/predict" /\ model.none) =>
        /\ resp.code = 503 /\ resp.json /\ resp.status = "unavailable"
        /\ raw = NotCalled

\* A body that does not parse, sent while the model is unset, answered 503.
C6_Witness ==
    /\ req.endpoint = "/predict" /\ model.none
    /\ req.data.kind = "malformed"
    /\ resp.code = 503

(***************************************************************************)
(* C7                                                                      *)
(***************************************************************************)
\* C7: GET /health is always answered 200, with status "healthy" and
\* model_loaded true if and only if the model is loaded (the condition
\* under which /predict does not answer 503), and with status "unhealthy"
\* and model_loaded false otherwise.
C7_HealthMatchesModel ==
    req.endpoint = "/health" =>
        /\ resp.code = 200 /\ resp.json
        /\ IF model.none
              THEN resp.status = "unhealthy" /\ ~resp.model_loaded
              ELSE resp.status = "healthy" /\ resp.model_loaded

(***************************************************************************)
(* C8                                                                      *)
(***************************************************************************)
\* C8: with the model loaded and a body that passed validation, when
\* model.predict raises the answer is 500 with error "Prediction failed",
\* status "error" and a details field, and the service goes on: it is
\* still serving with its model and the response can be sent.
C8_PredictionFailed ==
    (ObjectAnswered /\ AllInRange(req.data) /\ raw = Raises) =>
        /\ resp.code = 500 /\ resp.json
        /\ resp.error = "Prediction failed" /\ resp.status = "error"
        /\ "details" \in resp.keys
        /\ phase = "serving" /\ ~model.none
        /\ ENABLED Respond

\* A valid body for which model.predict raised.
C8_Witness ==
    /\ ObjectAnswered /\ AllInRange(req.data) /\ raw = Raises
    /\ resp.code = 500

(***************************************************************************)
(* C9                                                                      *)
(***************************************************************************)
\* C9: once startup has finished no step changes the model reference,
\* whatever request it answers and whatever the outcome.
C9_ModelWrittenOnce == [][phase = "serving" => model' = model]_vars

\* A request has failed with 500 in a service whose model is loaded.
C9_Witness ==
    /\ phase = "serving" /\ ~model.none
    /\ req.endpoint = "/predict" /\ resp.code = 500 /\ resp.json

(***************************************************************************)
(* C10                                                                     *)
(***************************************************************************)
\* The rows of the log file as the client would load them.
Logged == IF file.exists THEN read_csv(file) ELSE <<>>

\* C10: every press of the Predict button issues exactly one POST, and the
\* history in memory and the log file both hold, after the entries loaded
\* at session start, exactly one entry per call that returned a successful
\* prediction, in call order.
C10_OnePostPerPress ==
    started =>
        /\ posts = presses
        /\ history = successes
        /\ Logged = history

====
